---- MODULE Spec2Model ----
(***************************************************************************)
(* Model of the login service of jwt-python-tutorial (src/web.py).         *)
(*                                                                         *)
(* State: the user storage behind User.objects, the module globals of      *)
(* web.py, the wall clock read by datetime.utcnow(), and one coroutine of   *)
(* `login` per request, which suspends once at `await request.post()` and  *)
(* then runs to its return without another suspension.                     *)
(*                                                                         *)
(* Time is counted in whole seconds.  models.py (User) and the jwt package *)
(* are not part of src/; they are modelled from the specification.         *)
(***************************************************************************)
EXTENDS Integers, Sequences, FiniteSets, TLC

\* ---------------------------------------------------------------- bounds
NumRequests == 2
MaxTime == 2

Requests == 1..NumRequests
Emails == {"user@email.com", "nobody@email.com"}
Passwords == {"password", "wrong"}
Fields == {"email", "password"}

\* --------------------------------------------------- web.py module globals
JWT_SECRET == "secret"
JWT_ALGORITHM == "HS256"
JWT_EXP_DELTA_SECONDS == 20

VARIABLES
    users,       \* User.objects storage: sequence of [id, email, password]
    globals,     \* module globals of web.py read by login
    clock,       \* datetime.utcnow(), in seconds
    pc,          \* position of each login coroutine
    request,     \* the form body each request carries
    response,    \* the response each coroutine returned
    handled_at,  \* history: clock value read while handling the request
    seen_users   \* history: the storage as it was when the request was handled

vars == <<users, globals, clock, pc, request, response, handled_at, seen_users>>

None == [none |-> TRUE]

\* The form bodies a client can post: any subset of the two fields.
ValueOf(f) == IF f = "email" THEN Emails ELSE Passwords

Bodies ==
    UNION { { b \in [D -> Emails \cup Passwords] : \A f \in D : b[f] \in ValueOf(f) }
            : D \in SUBSET Fields }

\* ------------------------------------------------------------ models.User
\* User.objects.create: appends a record with the next id.
Create(us, email, password) ==
    Append(us, [id |-> Len(us) + 1, email |-> email, password |-> password])

\* User.objects.get(email=...): the one record with that email, or an exception.
Get(us, email) ==
    LET m == { i \in DOMAIN us : us[i].email = email }
    IN  IF m = {} THEN [exc |-> "DoesNotExist"]
        ELSE IF Cardinality(m) > 1 THEN [exc |-> "TooManyObjects"]
        ELSE [ok |-> us[CHOOSE i \in m : TRUE]]

\* user.match_password(password): raises on mismatch, returns nothing otherwise.
MatchPassword(user, password) ==
    IF user.password = password THEN [ok |-> None]
    ELSE [exc |-> "PasswordDoesNotMatch"]

Raised(res) == "exc" \in DOMAIN res

\* -------------------------------------------------------------------- jwt
\* HMAC over header and payload under the key, as an ideal keyed MAC.
Sign(header, payload, key) == <<"HMAC-SHA256", header, payload, key>>

\* jwt.encode: the three segments header.payload.signature, as bytes.
JwtEncode(payload, key, algorithm) ==
    LET header == [alg |-> algorithm, typ |-> "JWT"]
    IN  [type |-> "bytes",
         segments |-> <<header, payload, Sign(header, payload, key)>>]

\* bytes.decode('utf-8') of an encoded token.
DecodeUtf8(tok) == [type |-> "str", segments |-> tok.segments]

\* jwt.decode with signature and expiry verification at time `at`.
JwtDecode(tok, key, at) ==
    LET s == tok.segments
    IN  IF Len(s) # 3 THEN [exc |-> "DecodeError"]
        ELSE IF s[3] # Sign(s[1], s[2], key) THEN [exc |-> "InvalidSignature"]
        ELSE IF s[2].exp < at THEN [exc |-> "ExpiredSignature"]
        ELSE [ok |-> s[2]]

\* ----------------------------------------------------------------- web.py
JsonDumps(body) == <<"json", body>>

\* json_response(body, status=...): status defaults to 200.
json_response(body, status) ==
    [status |-> status, content_type |-> "text/json", body |-> JsonDumps(body)]

\* What the server answers when the handler lets an exception escape.
Unhandled(exc) ==
    [status |-> 500, content_type |-> "text/plain", body |-> <<"error", exc>>]

\* except (User.DoesNotExist, User.PasswordDoesNotMatch)
CaughtOnlyNotFound(exc) == exc = "DoesNotExist"

Caught(exc) == exc \in {"DoesNotExist", "PasswordDoesNotMatch"}

\* post_data[field]: a missing key raises KeyError.
Item(post_data, field) ==
    IF field \in DOMAIN post_data THEN [ok |-> post_data[field]]
    ELSE [exc |-> "KeyError"]

\* The try block: get the user by email, then match the password.
TryBlock(post_data, us) ==
    LET email == Item(post_data, "email")
    IN  IF Raised(email) THEN email
        ELSE LET user == Get(us, email.ok)
             IN  IF Raised(user) THEN user
                 ELSE LET password == Item(post_data, "password")
                      IN  IF Raised(password) THEN password
                          ELSE LET m == MatchPassword(user.ok, password.ok)
                               IN  IF Raised(m) THEN m ELSE user

\* payload = {'user_id': user.id, 'exp': utcnow() + timedelta(seconds=...)}
PayloadMinutes(user, now) ==
    [user_id |-> user.id, exp |-> now + 60 * globals.JWT_EXP_DELTA_SECONDS]

PayloadNoTtl(user, now) ==
    [user_id |-> user.id, exp |-> now]

PayloadFirstUser(user, now) ==
    [user_id |-> users[1].id, exp |-> now + globals.JWT_EXP_DELTA_SECONDS]

PayloadWithSerial(user, now) ==
    [user_id |-> user.id, exp |-> now + globals.JWT_EXP_DELTA_SECONDS,
     jti |-> Cardinality({ q \in Requests : pc[q] = "done" })]

Payload(user, now) ==
    [user_id |-> user.id, exp |-> now + globals.JWT_EXP_DELTA_SECONDS]

\* login, from the resumption after `await request.post()` to its return.
Login(post_data, us, now) ==
    LET res == TryBlock(post_data, us)
    IN  IF Raised(res)
        THEN IF Caught(res.exc)
             THEN json_response([message |-> "Wrong credentials"], 400)
             ELSE Unhandled(res.exc)
        ELSE LET jwt_token == JwtEncode(Payload(res.ok, now),
                                        globals.JWT_SECRET, globals.JWT_ALGORITHM)
             IN  json_response([token |-> DecodeUtf8(jwt_token)], 200)

\* `await request.post()` in the coroutine serving request r.
PostShared(r) ==
    request[CHOOSE q \in Requests :
                /\ pc[q] = "awaiting"
                /\ \A p \in Requests : pc[p] = "awaiting" => q <= p]

Post(r) == request[r]

\* ------------------------------------------------------------------ Init
Init ==
    /\ users = Create(<< >>, "user@email.com", "password")
    /\ globals = [JWT_SECRET |-> JWT_SECRET,
                  JWT_ALGORITHM |-> JWT_ALGORITHM,
                  JWT_EXP_DELTA_SECONDS |-> JWT_EXP_DELTA_SECONDS]
    /\ clock = 0
    /\ pc = [r \in Requests |-> "idle"]
    /\ request = [r \in Requests |-> None]
    /\ response = [r \in Requests |-> None]
    /\ handled_at = [r \in Requests |-> 0]
    /\ seen_users = [r \in Requests |-> << >>]

\* --------------------------------------------------------------- actions
\* A POST /login arrives; its coroutine starts and suspends on request.post().
Receive(r) ==
    /\ pc[r] = "idle"
    /\ \E b \in Bodies : request' = [request EXCEPT ![r] = b]
    /\ pc' = [pc EXCEPT ![r] = "awaiting"]
    /\ UNCHANGED <<users, globals, clock, response, handled_at, seen_users>>

\* The coroutine resumes with the form data and runs to its return.
RespondStoring(r) ==
    /\ pc[r] = "awaiting"
    /\ LET resp == Login(Post(r), users, clock)
       IN  /\ response' = [response EXCEPT ![r] = resp]
           /\ users' = IF resp.status = 200
                       THEN Append(users, [id |-> 0, email |-> "token",
                                           password |-> resp.body])
                       ELSE users
    /\ pc' = [pc EXCEPT ![r] = "done"]
    /\ handled_at' = [handled_at EXCEPT ![r] = clock]
    /\ seen_users' = [seen_users EXCEPT ![r] = users]
    /\ UNCHANGED <<globals, clock, request>>

Respond(r) ==
    /\ pc[r] = "awaiting"
    /\ response' = [response EXCEPT ![r] = Login(Post(r), users, clock)]
    /\ pc' = [pc EXCEPT ![r] = "done"]
    /\ handled_at' = [handled_at EXCEPT ![r] = clock]
    /\ seen_users' = [seen_users EXCEPT ![r] = users]
    /\ UNCHANGED <<users, globals, clock, request>>

\* Provisioning adds a user under an email that is not registered yet.
CreateUser ==
    /\ \E e \in Emails, p \in Passwords :
          /\ \A i \in DOMAIN users : users[i].email # e
          /\ users' = Create(users, e, p)
    /\ UNCHANGED <<globals, clock, pc, request, response, handled_at, seen_users>>

\* Wall-clock time passes.
Tick ==
    /\ clock < MaxTime
    /\ clock' = clock + 1
    /\ UNCHANGED <<users, globals, pc, request, response, handled_at, seen_users>>

Next ==
    \/ \E r \in Requests : Receive(r)
    \/ \E r \in Requests : Respond(r)
    \/ CreateUser
    \/ Tick

Spec == Init /\ [][Next]_vars

\* ------------------------------------------------------- claim vocabulary
Done(r) == pc[r] = "done"

HasBoth(b) == DOMAIN b = Fields

\* The stored records whose email and credential both equal the posted ones.
Matching(b, us) ==
    { i \in DOMAIN us : us[i].email = b["email"] /\ us[i].password = b["password"] }

Registered(e, us) == \E i \in DOMAIN us : us[i].email = e

WrongCredentials ==
    [status |-> 400, content_type |-> "text/json",
     body |-> <<"json", [message |-> "Wrong credentials"]>>]

Issued(r) == Done(r) /\ response[r].status = 200

TokenOf(r) == response[r].body[2].token

ClaimsOf(r) == TokenOf(r).segments[2]

\* C1: a login with both fields whose email is unregistered, or whose email
\* is registered but whose password does not match, gets the one response
\* 400 {"message": "Wrong credentials"}, which carries no token.
C1_UniformRejection ==
    \A r \in Requests :
        (Done(r) /\ HasBoth(request[r]) /\ Matching(request[r], seen_users[r]) = {})
            => response[r] = WrongCredentials

C1_Witness ==
    \E r1, r2 \in Requests :
        /\ Done(r1) /\ HasBoth(request[r1])
        /\ ~Registered(request[r1]["email"], seen_users[r1])
        /\ Done(r2) /\ HasBoth(request[r2])
        /\ Registered(request[r2]["email"], seen_users[r2])
        /\ Matching(request[r2], seen_users[r2]) = {}
        /\ response[r1] = response[r2]

\* C2: a login with a registered email and its correct password gets status
\* 200 and a JSON body {"token": ...} whose user_id claim is the id of the
\* stored record with that email.
C2_CorrectLoginIssuesToken ==
    \A r \in Requests :
        (Done(r) /\ HasBoth(request[r])) =>
            \A i \in Matching(request[r], seen_users[r]) :
                /\ response[r].status = 200
                /\ response[r].content_type = "text/json"
                /\ response[r].body[1] = "json"
                /\ DOMAIN response[r].body[2] = {"token"}
                /\ Len(TokenOf(r).segments) = 3
                /\ ClaimsOf(r).user_id = seen_users[r][i].id

C2_Witness ==
    \E r \in Requests :
        /\ Done(r) /\ HasBoth(request[r])
        /\ \E i \in Matching(request[r], seen_users[r]) :
              /\ seen_users[r][i].id = 2
              /\ ClaimsOf(r).user_id = 2

\* C3: a login whose body lacks the email field or the password field gets
\* the same 400 "Wrong credentials" rejection as an unregistered email.
C3_MissingFieldRejected ==
    \A r \in Requests :
        (Done(r) /\ ~HasBoth(request[r])) => response[r] = WrongCredentials

\* C4: every finished login attempt ended in one of two outcomes, a token
\* (200) or a rejection (400).
C4_TwoOutcomes ==
    \A r \in Requests :
        Done(r) => \/ Issued(r)
                   \/ response[r] = WrongCredentials

\* C5: a token issued at time T with time-to-live D decodes and verifies
\* under the same secret at T + D - 1 and is expired at T + D + 1.
C5_ValidUntilExpiry ==
    \A r \in Requests :
        Issued(r) =>
            LET T == handled_at[r]
                D == JWT_EXP_DELTA_SECONDS
            IN  /\ JwtDecode(TokenOf(r), JWT_SECRET, T + D - 1) = [ok |-> ClaimsOf(r)]
                /\ JwtDecode(TokenOf(r), JWT_SECRET, T + D + 1)
                       = [exc |-> "ExpiredSignature"]

C5_Witness ==
    \E r \in Requests :
        /\ Issued(r)
        /\ handled_at[r] > 0
        /\ ~Raised(JwtDecode(TokenOf(r), JWT_SECRET, handled_at[r] + 19))

\* C6: the claims of every issued token are exactly user_id, the id of the
\* authenticated user, and exp, the clock value read for that request plus
\* the 20 second time-to-live; exp is later than the issuance time.
C6_ClaimsExact ==
    \A r \in Requests :
        Issued(r) =>
            /\ DOMAIN ClaimsOf(r) = {"user_id", "exp"}
            /\ \E i \in Matching(request[r], seen_users[r]) :
                  ClaimsOf(r).user_id = seen_users[r][i].id
            /\ ClaimsOf(r).exp = handled_at[r] + JWT_EXP_DELTA_SECONDS
            /\ ClaimsOf(r).exp > handled_at[r]

C6_Witness ==
    \E r \in Requests :
        /\ Issued(r)
        /\ handled_at[r] = MaxTime
        /\ ClaimsOf(r).exp = MaxTime + 20

\* C7: two issuances for the same identity at the same clock value, under
\* the same secret and time-to-live, return identical tokens, whatever else
\* was handled before or in between.
C7_DeterministicIssue ==
    \A r1, r2 \in Requests :
        (/\ Issued(r1) /\ Issued(r2)
         /\ request[r1]["email"] = request[r2]["email"]
         /\ handled_at[r1] = handled_at[r2])
            => TokenOf(r1) = TokenOf(r2)

C7_Witness ==
    \E r1, r2 \in Requests :
        /\ r1 # r2
        /\ Issued(r1) /\ Issued(r2)
        /\ request[r1]["email"] = request[r2]["email"]
        /\ handled_at[r1] = handled_at[r2]

\* C8: a step of a login handler leaves the user storage, the signing secret
\* and the time-to-live as they were; no token is kept on the server.
C8_NoSideEffects ==
    [][(\E r \in Requests : pc'[r] # pc[r])
          => (users' = users /\ globals' = globals)]_vars

C8_Witness ==
    \E r1, r2 \in Requests :
        /\ Issued(r1)
        /\ Done(r2) /\ response[r2] = WrongCredentials
        /\ users = seen_users[r1]
        /\ globals.JWT_SECRET = JWT_SECRET
        /\ globals.JWT_EXP_DELTA_SECONDS = JWT_EXP_DELTA_SECONDS

\* C9: whatever the interleaving of handlers, each request's outcome is fixed
\* by its own body and the storage it was handled against: a token only for
\* the user its own credentials match, a rejection only when its own
\* credentials match no user.
C9_Independent ==
    \A r \in Requests :
        Done(r) =>
            LET b == request[r]
                us == seen_users[r]
            IN  /\ response[r].status = 200 =>
                      /\ HasBoth(b)
                      /\ \E i \in Matching(b, us) :
                            ClaimsOf(r).user_id = us[i].id
                /\ response[r].status = 400 =>
                      /\ "email" \in DOMAIN b
                      /\ ~(HasBoth(b) /\ Matching(b, us) # {})
                      /\ ("password" \in DOMAIN b \/ ~Registered(b["email"], us))
                /\ response[r].status = 500 => ~HasBoth(b)
                /\ response[r].status \in {200, 400, 500}

C9_Witness ==
    \E r1, r2 \in Requests :
        /\ Issued(r1)
        /\ Done(r2) /\ response[r2].status = 400
        /\ r2 < r1
        /\ request[r1] # request[r2]
        /\ handled_at[r1] = handled_at[r2]

====
